---- MODULE Spec2Model ----
(***************************************************************************)
(* A model of tg2md.py: the conversion of a Telegram JSON export into one  *)
(* Markdown file per message.                                              *)
(*                                                                         *)
(* A Python str is a sequence of one-character strings; a date and a       *)
(* number are rendered as one element each.  A dict is a record whose      *)
(* DOMAIN is the set of keys present.  A value that may be a str or        *)
(* something else is wrapped: JStr(s), JList(l), JNone.                    *)
(* A call returns Ret(value, log) or Raise(exception, log), log being the  *)
(* records it handed to the logger.                                        *)
(***************************************************************************)
EXTENDS Integers, Sequences, FiniteSets, TLC

VARIABLES
    user_id,          \* main: data['id']
    raw_posts,        \* main: data['messages']
    n,                \* main: number of posts the for loop has finished
    pc,               \* main: position inside the loop body
    exc,              \* main: the uncaught exception that ended the run, or ""
    files,            \* the output directory: file name -> content
    log,              \* records handed to the logger by main and its callees
    post,             \* the post the functions are applied to
    post_header,      \* result of print_default_post_header(post, user_id)
    post_parsed_text, \* result of parse_post_text(post, stickers_dir)
    obj,              \* the span parse_text_object was applied to
    text              \* result of parse_text_object(post['id'], obj, ...)

vars == <<user_id, raw_posts, n, pc, exc, files, log,
          post, post_header, post_parsed_text, obj, text>>

-----------------------------------------------------------------------------
(* Bounds *)

MaxLen == 3        \* longest span text drawn from the alphabet
MaxSpans == 2      \* longest text_entities array of the simple pool
MaxPosts == 3      \* longest archive
MaxUserId == 2     \* owner ids 1..MaxUserId

-----------------------------------------------------------------------------
(* Python values *)

JNone == [none |-> TRUE]
JStr(s) == [str |-> s]
JList(l) == [list |-> l]
Unset == [unset |-> TRUE]

IsNone(v) == "none" \in DOMAIN v
IsStr(v) == "str" \in DOMAIN v
IsList(v) == "list" \in DOMAIN v
IsUnset(v) == "unset" \in DOMAIN v

Ret(v, lg) == [exc |-> "", ret |-> v, log |-> lg]
Raise(e, lg) == [exc |-> e, log |-> lg]

Record(level, msg, post_id, type) ==
    [level |-> level, msg |-> msg, post_id |-> post_id, type |-> type]

-----------------------------------------------------------------------------
(* Characters and literals *)

NL == "\n"
BS == "\\"
ZWSP == "u200b"
NBSP == "xa0"

Whitespace == {" ", NL, "\t", "\r", NBSP}

HTTPS == <<"h", "t", "t", "p", "s", ":", "/", "/">>
TME_C == HTTPS \o <<"t", ".", "m", "e", "/", "c", "/">>
TME == HTTPS \o <<"t", ".", "m", "e", "/">>

-----------------------------------------------------------------------------
(* str methods *)

startswith(s, prefix) ==
    /\ Len(prefix) <= Len(s)
    /\ SubSeq(s, 1, Len(prefix)) = prefix

endswith(s, suffix) ==
    /\ Len(suffix) <= Len(s)
    /\ SubSeq(s, Len(s) - Len(suffix) + 1, Len(s)) = suffix

count(s, c) == Cardinality({i \in 1..Len(s) : s[i] = c})

RECURSIVE lstrip(_)
lstrip(s) ==
    IF s # <<>> /\ Head(s) \in Whitespace THEN lstrip(Tail(s)) ELSE s

RECURSIVE rstrip(_)
rstrip(s) ==
    IF s # <<>> /\ s[Len(s)] \in Whitespace
    THEN rstrip(SubSeq(s, 1, Len(s) - 1))
    ELSE s

strip(s) == rstrip(lstrip(s))

\* s.split(c): the pieces between the occurrences of the character c
RECURSIVE split(_, _)
split(s, c) ==
    IF \A i \in 1..Len(s) : s[i] # c
    THEN <<s>>
    ELSE LET i == CHOOSE j \in 1..Len(s) :
                      s[j] = c /\ \A m \in 1..(j - 1) : s[m] # c
         IN  <<SubSeq(s, 1, i - 1)>> \o split(SubSeq(s, i + 1, Len(s)), c)

\* s.replace(old, new), old not empty
RECURSIVE replace(_, _, _)
replace(s, old, new) ==
    IF Len(s) < Len(old) THEN s
    ELSE IF startswith(s, old)
         THEN new \o replace(SubSeq(s, Len(old) + 1, Len(s)), old, new)
         ELSE <<Head(s)>> \o replace(Tail(s), old, new)

\* s * k
RECURSIVE repeat(_, _)
repeat(s, k) == IF k <= 0 THEN <<>> ELSE s \o repeat(s, k - 1)

\* a bool used as a number
int(b) == IF b THEN 1 ELSE 0

\* str(i) of a one-digit number
str(i) == <<ToString(i)>>

RECURSIVE join(_, _)
join(sep, strings) ==
    IF strings = <<>> THEN <<>>
    ELSE IF Len(strings) = 1 THEN strings[1]
    ELSE strings[1] \o sep \o join(sep, Tail(strings))

-----------------------------------------------------------------------------
(* text_format *)

STAR == <<"*">>
STAR2 == <<"*", "*">>
STAR3 == <<"*", "*", "*">>
BT == "BACKTICK"       \* the backtick character
TICK == <<BT>>
TICK3 == <<BT, BT, BT>>

\* string.split('\n').count('')
count_empty(pieces) == Cardinality({i \in 1..Len(pieces) : pieces[i] = <<>>})

text_format(string, fmt) ==
    LET txt == strip(string)
        output ==
            IF fmt \in {STAR, STAR2, STAR3, TICK, TICK3}
            THEN fmt \o txt \o fmt
            ELSE IF fmt = TICK3
                 THEN fmt \o <<NL>> \o txt \o <<NL>> \o fmt
                 ELSE <<"<">> \o fmt \o <<">">> \o txt \o <<"<", "/">> \o fmt \o <<">">>
    IN  output \o repeat(<<NL>>, count_empty(split(string, NL))
                                   * int(endswith(string, <<NL>>)))

-----------------------------------------------------------------------------
(* deserialize_string: every str.replace builds a new string, which the    *)
(* function drops; the argument is returned as it came.                    *)

deserialize_string(s) ==
    LET dropped == << replace(s, <<BS, "n">>, <<NL>>),
                      replace(s, <<BS, "r">>, <<"\r">>),
                      replace(s, <<BS, "t">>, <<"\t">>),
                      replace(s, <<BS, "\"">>, <<"\"">>),
                      replace(s, <<BS, BS>>, <<BS>>) >>
    IN  s

-----------------------------------------------------------------------------
(* text_link_format *)

ZeroWidth == {<<ZWSP>>, <<ZWSP, ZWSP>>, <<NBSP>>}

\* link.split('/')[-1]
last_piece(link) == LET pieces == split(link, "/") IN pieces[Len(pieces)]

\* anchor, with the link left as it came
anchor_none(link) == link

\* links into the channel become anchors
anchor(link) ==
    IF startswith(link, TME_C) THEN <<"#">> \o last_piece(link) ELSE link

\* the string text_link_format returns
text_link_format(txt, link) ==
    IF txt \in ZeroWidth
    THEN <<">", " ", "!", "[", "]", "(">> \o link \o <<")", NL, NL>>
    ELSE <<"[">> \o txt \o <<"]", "(">> \o anchor(link) \o <<")">>
         \o repeat(<<NL>>, count(txt, NL) * int(endswith(txt, <<NL>>)))

\* what text_link_format hands to the logger
text_link_log(txt) ==
    IF txt \in ZeroWidth
    THEN << [level |-> "DEBUG",
             msg |-> "The text is zero-width space, process as an inline image."] >>
    ELSE <<>>

-----------------------------------------------------------------------------
(* parse_text_object *)

\* re.sub(r'( |\\|/|\(|\))', r'\\\g<1>', document_id)
RECURSIVE escape_document_id(_)
escape_document_id(s) ==
    IF s = <<>> THEN <<>>
    ELSE (IF Head(s) \in {" ", BS, "/", "(", ")"} THEN <<BS, Head(s)>> ELSE <<Head(s)>>)
         \o escape_document_id(Tail(s))

\* the link and email branch
link_format(obj_type, obj_text) ==
    LET link == strip(obj_text)
    IN  <<"<">>
        \o repeat(HTTPS, int(obj_type = "link") * (1 - int(startswith(link, HTTPS))))
        \o link \o <<">">>

\* cannot_format, with nothing handed to the logger
cannot_format_silent(obj_type, post_id) == Ret(JNone, <<>>)

\* the final else branch: a kind no branch handles
cannot_format(obj_type, post_id) ==
    Ret(JNone,
        << Record("WARNING", "Cannot format the '%s' object type of the post #%i.",
                  post_id, obj_type) >>)

\* the branches of the if chain, taken once type and text have been read
format_object(post_id, o, obj_type, obj_text) ==
    CASE obj_type = "text_link" ->
            IF "href" \in DOMAIN o
            THEN Ret(JStr(text_link_format(obj_text, o.href)), text_link_log(obj_text))
            ELSE Raise("KeyError", <<>>)
      [] obj_type \in {"link", "email"} -> Ret(JStr(link_format(obj_type, obj_text)), <<>>)
      [] obj_type = "phone" -> Ret(JStr(obj_text), <<>>)
      [] obj_type = "italic" -> Ret(JStr(text_format(obj_text, STAR)), <<>>)
      [] obj_type = "bold" -> Ret(JStr(text_format(obj_text, STAR2)), <<>>)
      [] obj_type = "code" -> Ret(JStr(text_format(obj_text, TICK)), <<>>)
      [] obj_type = "pre" -> Ret(JStr(text_format(obj_text, TICK3)), <<>>)
      [] obj_type = "underline" -> Ret(JStr(text_format(obj_text, <<"u">>)), <<>>)
      [] obj_type = "strikethrough" -> Ret(JStr(text_format(obj_text, <<"s">>)), <<>>)
      [] obj_type = "plain" -> Ret(JStr(obj_text), <<>>)
      [] obj_type = "bank_card" -> Ret(JStr(obj_text), <<>>)
      [] obj_type = "mention" ->
            Ret(JStr(TME \o SubSeq(obj_text, 2, Len(obj_text))), <<>>)
      [] obj_type = "blockquote" -> Ret(JStr(<<">", " ">> \o obj_text), <<>>)
      [] obj_type = "custom_emoji" ->
            IF "document_id" \in DOMAIN o
            THEN Ret(JStr(<<"!", "[">> \o obj_text \o <<"]", "(">>
                          \o escape_document_id(o.document_id) \o <<")", NL, NL>>),
                     <<>>)
            ELSE Raise("KeyError", <<>>)
      [] obj_type = "spoiler" ->
            Ret(JStr(<<">", " ", "[", "!", "i", "n", "f", "o", "]", NL, ">", " ">>
                     \o obj_text \o <<NL, NL>>), <<>>)
      [] obj_type = "hashtag" -> Ret(JNone, <<>>)
      [] OTHER -> cannot_format(obj_type, post_id)

\* a result with the records logged before the call put first
logged(records, r) ==
    IF r.exc = "" THEN Ret(r.ret, records \o r.log) ELSE Raise(r.exc, records \o r.log)

parse_text_object(post_id, o) ==
    IF IsStr(o) THEN Raise("TypeError", <<>>)        \* obj['type'] on a str
    ELSE IF "type" \notin DOMAIN o THEN Raise("KeyError", <<>>)
    ELSE IF "text" \notin DOMAIN o THEN Raise("KeyError", <<>>)
    ELSE logged(<< Record("DEBUG",
                          "Process the '%s' object of the post #%i with the content %r.",
                          post_id, o.type) >>,
                format_object(post_id, o, o.type, deserialize_string(o.text)))

-----------------------------------------------------------------------------
(* parse_tags and print_default_post_header *)

\* one turn of the loop of parse_tags, rest being what the later turns give
tags_append(o, rest) ==
    IF IsStr(o) THEN Raise("TypeError", <<>>)      \* obj['type'] on a str
    ELSE IF "type" \notin DOMAIN o THEN Raise("KeyError", <<>>)
    ELSE IF o.type # "hashtag" THEN rest
    ELSE IF "text" \notin DOMAIN o THEN Raise("KeyError", <<>>)
    ELSE IF rest.exc # "" THEN rest
    ELSE Ret(<<o.text>> \o rest.ret, <<>>)

\* the loop of parse_tags over a list: the texts of the hashtag spans
RECURSIVE hashtag_texts(_)
hashtag_texts(l) ==
    IF l = <<>> THEN Ret(<<>>, <<>>)
    ELSE tags_append(Head(l), hashtag_texts(Tail(l)))

\* joined, with nothing between the tags
joined_unspaced(tags) ==
    IF tags.exc # "" THEN tags ELSE Ret(join(<<>>, tags.ret), <<>>)

\* ' '.join(tags)
joined(tags) ==
    IF tags.exc # "" THEN tags ELSE Ret(join(<<" ">>, tags.ret), <<>>)

parse_tags(text_entities) ==
    IF IsStr(text_entities)
    THEN \* the loop runs over the characters of the str
         IF text_entities.str = <<>> THEN Ret(<<>>, <<>>) ELSE Raise("TypeError", <<>>)
    ELSE joined(hashtag_texts(text_entities.list))

\* datetime.fromisoformat of <<date, "T", time>>
fromisoformat(s) == [date |-> s[1], time |-> s[3]]
str_datetime(d) == <<d.date, " ", d.time>>
str_date(d) == <<d.date>>

USER == <<"u", "s", "e", "r">>
TITLE == <<"t", "i", "t", "l", "e", ":", " ">>
DATE == <<"d", "a", "t", "e", ":", " ">>
TAGS == <<"t", "a", "g", "s", ":", " ">>
FROM == <<"f", "r", "o", "m", ":", " ">>
FORWARDED_FROM ==
    <<"f", "o", "r", "w", "a", "r", "d", "e", "d", BS, "_", "f", "r", "o", "m", ":", " ">>
SAVED_FROM == <<"s", "a", "v", "e", "d", BS, "_", "f", "r", "o", "m", ":", " ">>
LAYOUT == <<"l", "a", "y", "o", "u", "t", ":", " ", "p", "o", "s", "t">>
FENCE == <<"-", "-", "-">>
QUOTE == "'"

\* lines 51-54: from_header is read by += before anything was assigned to it
from_header(p, uid) ==
    IF "from_id" \in DOMAIN p /\ p.from_id # USER \o str(uid)
    THEN Raise("UnboundLocalError", <<>>)
    ELSE Ret(<<>>, <<>>)

\* the header, given what parse_tags and the from lines came to
header_text(p, post_tags, from) ==
    LET post_title == p.id
        post_date == fromisoformat(p.date)
    IN  IF post_tags.exc # "" THEN post_tags
        ELSE IF from.exc # "" THEN from
        ELSE     Ret(FENCE \o <<NL>>
                      \o TITLE \o str(post_title) \o <<NL>>
                      \o DATE \o str_datetime(post_date) \o <<NL>>
                      \o (IF post_tags.ret # <<>>
                          THEN TAGS \o post_tags.ret \o <<NL>> ELSE <<>>)
                      \o from.ret
                      \o (IF "forwarded_from" \in DOMAIN p
                          THEN FORWARDED_FROM \o <<QUOTE>> \o p.forwarded_from
                               \o <<QUOTE, NL>>
                          ELSE <<>>)
                      \o (IF "saved_from" \in DOMAIN p
                          THEN SAVED_FROM \o <<QUOTE>> \o p.saved_from \o <<QUOTE, NL>>
                          ELSE <<>>)
                      \o LAYOUT \o <<NL>> \o FENCE \o <<NL>>,
                      <<>>)

print_default_post_header(p, uid) ==
    IF "id" \notin DOMAIN p \/ "date" \notin DOMAIN p \/ "text_entities" \notin DOMAIN p
    THEN Raise("KeyError", <<>>)
    ELSE header_text(p, parse_tags(p.text_entities), from_header(p, uid))

-----------------------------------------------------------------------------
(* parse_post_text, parse_post_photo, parse_post_media, parse_post *)

\* isinstance(post_raw_text, str) inside the loop: the test is on the list
\* the loop runs over, not on obj, and the list is not a str
element_is_str(post_raw_text, o) == IsStr(post_raw_text)

\* one turn of the loop: the element itself, or what parse_text_object gives
parse_element(post_id, post_raw_text, o) ==
    IF element_is_str(post_raw_text, o) THEN Ret(o, <<>>) ELSE parse_text_object(post_id, o)

\* post_parsed_text += str(text) unless text is None; rest is what the later
\* turns give, which are not reached when this one raises
text_append(r, rest) ==
    IF r.exc # "" THEN r
    ELSE IF rest.exc # "" THEN Raise(rest.exc, r.log \o rest.log)
    ELSE Ret((IF IsNone(r.ret) THEN <<>> ELSE r.ret.str) \o rest.ret, r.log \o rest.log)

\* the for loop of parse_post_text
RECURSIVE parse_objects(_, _, _)
parse_objects(post_id, post_raw_text, l) ==
    IF l = <<>> THEN Ret(<<>>, <<>>)
    ELSE text_append(parse_element(post_id, post_raw_text, Head(l)),
                     parse_objects(post_id, post_raw_text, Tail(l)))

parse_post_text(p) ==
    IF "id" \notin DOMAIN p \/ "text_entities" \notin DOMAIN p
    THEN Raise("KeyError", <<>>)
    ELSE IF IsStr(p.text_entities) THEN Ret(p.text_entities.str, <<>>)
    ELSE parse_objects(p.id, p.text_entities, p.text_entities.list)

parse_post_photo(p) ==
    <<"!", "[", "i", "m", "a", "g", "e", "]", "(">> \o p.photo \o <<")", NL, NL>>

parse_post_media(p) ==
    IF "file" \in DOMAIN p
    THEN Ret(<<"!", "[", "[">> \o p.file \o <<"]", "]", NL, NL>>, <<>>)
    ELSE Raise("KeyError", <<>>)

\* post_output, given its three parts
post_output(photo, media, body) ==
    IF media.exc # "" THEN media
    ELSE IF body.exc # "" THEN body
    ELSE Ret(photo \o media.ret \o body.ret, body.log)

parse_post(p) ==
    post_output(IF "photo" \in DOMAIN p THEN parse_post_photo(p) ELSE <<>>,
                IF "media_type" \in DOMAIN p THEN parse_post_media(p) ELSE Ret(<<>>, <<>>),
                parse_post_text(p))

-----------------------------------------------------------------------------
(* Inputs *)

D1 == <<"2021-03-01", "T", "10:00:00">>
D2 == <<"2021-03-02", "T", "09:30:00">>

Span(type, txt) == [type |-> type, text |-> txt]

Types ==
    {"text_link", "link", "email", "phone", "italic", "bold", "code", "pre",
     "underline", "strikethrough", "plain", "bank_card", "mention", "blockquote",
     "custom_emoji", "spoiler", "hashtag",
     "mention_name", "bot_command", "cashtag", "unknown"}

Alphabet == {"a", "n", " ", NL, BS}

Texts == UNION {[1..l -> Alphabet] : l \in 0..MaxLen} \cup ZeroWidth

Hrefs == { HTTPS \o <<"e", ".", "c", "o", "m">>,
           TME_C \o <<"1", "/", "5">> }

DocumentIds == { <<"s", "/", "a", " ", "(", "1", ")", BS, ".", "w">> }

\* one span of every kind over every text
RichSpans ==
    {Span(t, s) : t \in Types, s \in Texts}
    \cup {[type |-> "text_link", text |-> s, href |-> h] : s \in Texts, h \in Hrefs}
    \cup {[type |-> "custom_emoji", text |-> s, document_id |-> d] :
              s \in Texts, d \in DocumentIds}

\* the elements the longer arrays are built from
Elements ==
    { Span("hashtag", <<"#", "a">>), Span("hashtag", <<"#", "b">>), Span("hashtag", <<>>),
      Span("plain", <<"a">>), Span("bold", <<" ", "a", " ">>),
      Span("mention_name", <<"@", "x">>), Span("cashtag", <<"$", "x">>),
      JStr(<<"s">>) }

Arrays == UNION {[1..l -> Elements] : l \in 0..MaxSpans}

PostIds == {1, 2}

FromIds == {USER \o str(u) : u \in 1..MaxUserId} \cup {<<"c", "h", "a", "t", "9">>}

Message(id, text_entities) ==
    [type |-> "message", id |-> id, date |-> D1, text_entities |-> text_entities]

Sender == {<< >>} \cup {("from_id" :> f) @@ ("from" :> <<"B", "o", "b">>) : f \in FromIds}
Forwarded == {<< >>, ("forwarded_from" :> <<"F">>)}
Saved == {<< >>, ("saved_from" :> <<"S">>)}

\* posts with every provenance over the arrays, and over a plain str
ArrayPosts ==
    {Message(i, te) @@ s @@ f @@ v :
        i \in PostIds, s \in Sender, f \in Forwarded, v \in Saved,
        te \in {JList(a) : a \in Arrays} \cup {JStr(<<>>), JStr(<<"a", NL>>)}}

\* posts of one span
SpanPosts == {Message(1, JList(<<o>>)) : o \in RichSpans}

\* the posts an archive is made of; the loop gives each its position as id
Plain == Span("plain", <<"a">>)
ArchivePosts ==
    { [type |-> "message", date |-> D1, from_id |-> USER \o str(1), from |-> <<"A">>,
       text_entities |-> JList(<<Plain, Span("hashtag", <<"#", "a">>)>>)],
      [type |-> "message", date |-> D2, photo |-> <<"p">>, media_type |-> <<"v">>,
       file |-> <<"f">>, forwarded_from |-> <<"F">>,
       text_entities |-> JList(<<Span("bold", <<"a", " ">>), Span("mention_name", <<"@">>)>>)],
      [type |-> "message", date |-> D1, from_id |-> <<"c", "h", "a", "t", "9">>,
       from |-> <<"B">>, text_entities |-> JList(<<Plain>>)],
      [type |-> "message", date |-> D2,
       text_entities |-> JList(<<Plain, Span("text_link", <<"a">>)>>)],
      [type |-> "message", text_entities |-> JList(<<Plain>>)],
      [type |-> "service", date |-> D1, action |-> "clear_history"],
      [type |-> "service", date |-> D1, action |-> "pin_message"],
      [type |-> "service", date |-> D2],
      [type |-> "unsupported", date |-> D2] }

Archives ==
    UNION { {[i \in 1..l |-> ("id" :> i) @@ a[i]] : a \in [1..l -> ArchivePosts]} :
            l \in 0..MaxPosts }

-----------------------------------------------------------------------------
(* main: the loop over raw_posts *)

NoFiles == [name \in {} |-> <<>>]

\* post_filename, with the time left in the name
post_filename_time(p) ==
    str_datetime(fromisoformat(p.date)) \o <<"-">> \o str(p.id) \o <<".", "m", "d">>

\* lines 344-345
post_filename(p) ==
    str_date(fromisoformat(p.date)) \o <<"-">> \o str(p.id) \o <<".", "m", "d">>

current == raw_posts[n + 1]

Running == exc = "" /\ pc = "loop" /\ n < Len(raw_posts)

Init ==
    /\ user_id \in 1..MaxUserId
    /\ raw_posts \in Archives
    /\ n = 0
    /\ pc = "loop"
    /\ exc = ""
    /\ files = NoFiles
    /\ log = <<>>
    /\ post = Unset
    /\ post_header = Unset
    /\ post_parsed_text = Unset
    /\ obj = Unset
    /\ text = Unset

\* lines 342-350: the file is opened for writing before anything is rendered
MainOpen ==
    /\ Running
    /\ current.type = "message"
    /\ IF "date" \in DOMAIN current
       THEN /\ files' = (post_filename(current) :> <<>>) @@ files
            /\ pc' = "header"
            /\ exc' = exc
       ELSE /\ exc' = "KeyError"
            /\ UNCHANGED <<files, pc>>
    /\ UNCHANGED <<user_id, raw_posts, n, log, post, post_header, post_parsed_text, obj, text>>

\* print(r, file=f), r being the result of a call: nothing is written when
\* the call raises, and the exception ends the run
print_to_file(r) ==
    /\ log' = log \o r.log
    /\ IF r.exc = ""
       THEN /\ files' = [files EXCEPT ![post_filename(current)] = @ \o r.ret \o <<NL>>]
            /\ exc' = exc
       ELSE /\ exc' = r.exc
            /\ files' = files

\* line 351
MainHeader ==
    /\ exc = ""
    /\ pc = "header"
    /\ print_to_file(print_default_post_header(current, user_id))
    /\ pc' = IF exc' = "" THEN "body" ELSE pc
    /\ UNCHANGED <<user_id, raw_posts, n, post, post_header, post_parsed_text, obj, text>>

\* line 352, and the end of the loop body
MainBody ==
    /\ exc = ""
    /\ pc = "body"
    /\ print_to_file(parse_post(current))
    /\ pc' = IF exc' = "" THEN "loop" ELSE pc
    /\ n' = IF exc' = "" THEN n + 1 ELSE n
    /\ UNCHANGED <<user_id, raw_posts, post, post_header, post_parsed_text, obj, text>>

\* lines 354-357: post['action'] is read of every service post
MainClearHistory ==
    /\ Running
    /\ current.type = "service"
    /\ IF "action" \notin DOMAIN current
       THEN /\ exc' = "KeyError"
            /\ UNCHANGED <<n, log>>
       ELSE /\ current.action = "clear_history"
            /\ log' = Append(log,
                    [level |-> "DEBUG",
                     msg |-> "The type of post #%i is 'service' and the action is 'clear_history'.",
                     post_id |-> current.id])
            /\ n' = n + 1
            /\ exc' = exc
    /\ UNCHANGED <<user_id, raw_posts, pc, files, post, post_header, post_parsed_text, obj, text>>

\* unsupported, logged at the debug level
unsupported_debug(p) ==
    Record("DEBUG", "The type of post #%i is '%s' and it is not supported.", p.id, p.type)

\* lines 358-360
unsupported(p) ==
    Record("WARNING", "The type of post #%i is '%s' and it is not supported.", p.id, p.type)

MainUnsupported ==
    /\ Running
    /\ current.type # "message"
    /\ current.type = "service" => "action" \in DOMAIN current /\ current.action # "clear_history"
    /\ log' = Append(log, unsupported(current))
    /\ n' = n + 1
    /\ UNCHANGED <<user_id, raw_posts, pc, exc, files, post, post_header, post_parsed_text, obj, text>>

\* the loop is over
MainExit ==
    /\ exc = ""
    /\ pc = "loop"
    /\ n = Len(raw_posts)
    /\ pc' = "done"
    /\ UNCHANGED <<user_id, raw_posts, n, exc, files, log, post, post_header, post_parsed_text, obj, text>>

Next ==
    \/ MainOpen
    \/ MainHeader
    \/ MainBody
    \/ MainClearHistory
    \/ MainUnsupported
    \/ MainExit

Spec == Init /\ [][Next]_vars

-----------------------------------------------------------------------------
(* The functions applied to one post *)

InitFn ==
    /\ \/ user_id \in 1..MaxUserId /\ post \in ArrayPosts
       \/ user_id = 1 /\ post \in SpanPosts
    /\ raw_posts = <<>>
    /\ n = 0
    /\ pc = "call"
    /\ exc = ""
    /\ files = NoFiles
    /\ log = <<>>
    /\ post_header = Unset
    /\ post_parsed_text = Unset
    /\ obj = Unset
    /\ text = Unset

CallPrintDefaultPostHeader ==
    /\ pc = "call"
    /\ post_header' = print_default_post_header(post, user_id)
    /\ pc' = "returned"
    /\ UNCHANGED <<user_id, raw_posts, n, exc, files, log, post, post_parsed_text, obj, text>>

CallParsePostText ==
    /\ pc = "call"
    /\ post_parsed_text' = parse_post_text(post)
    /\ pc' = "returned"
    /\ UNCHANGED <<user_id, raw_posts, n, exc, files, log, post, post_header, obj, text>>

CallParseTextObject ==
    /\ pc = "call"
    /\ IsList(post.text_entities)
    /\ \E i \in 1..Len(post.text_entities.list) :
          /\ obj' = post.text_entities.list[i]
          /\ text' = parse_text_object(post.id, obj')
    /\ pc' = "returned"
    /\ UNCHANGED <<user_id, raw_posts, n, exc, files, log, post, post_header, post_parsed_text>>

NextFn ==
    \/ CallPrintDefaultPostHeader
    \/ CallParsePostText
    \/ CallParseTextObject

SpecFn == InitFn /\ [][NextFn]_vars

-----------------------------------------------------------------------------
(* Properties of main *)

IsSpan(o) == "type" \in DOMAIN o
IsMessage(i) == raw_posts[i].type = "message"
Ended == pc = "done" \/ exc # ""

Warnings(lg) == SelectSeq(lg, LAMBDA r : r.level = "WARNING")
WarningsOf(lg, id) == SelectSeq(lg, LAMBDA r : r.level = "WARNING" /\ r.post_id = id)

\* '<calendar date>-<id>.md'
FileNameOf(p) == <<p.date[1], "-", ToString(p.id), ".", "m", "d">>

\* the message posts whose file main has opened
Opened ==
    {i \in 1..Len(raw_posts) :
        IsMessage(i) /\ (i <= n \/ (i = n + 1 /\ pc \in {"header", "body"}))}

\* C1: a hard failure on one post aborts only that post: the run never ends
\* with a post after the failing one left unvisited.
C1_FailureIsolation == exc # "" => n + 1 = Len(raw_posts)

\* C2 as claimed: once the run is over, the files are exactly those of the
\* message posts that were processed to the end; a post whose header or body
\* rendering failed has no file.
C2_FileOnlyIfRendered ==
    Ended => DOMAIN files = {FileNameOf(raw_posts[i]) : i \in {j \in 1..n : IsMessage(j)}}

\* C2 as amended: the files are exactly those of the message posts main has
\* opened a file for, each named '<calendar date>-<id>.md'.  A post processed
\* to the end has header and body in its file; the file of the post whose
\* header is being rendered, or failed to render, is empty; the file of the
\* post whose body is being rendered, or failed to render, holds the header
\* only.  No other post has a file.
C2_FilePerOpenedMessage ==
    /\ DOMAIN files = {FileNameOf(raw_posts[i]) : i \in Opened}
    /\ \A i \in Opened :
          LET f == files[FileNameOf(raw_posts[i])]
              h == print_default_post_header(raw_posts[i], user_id)
          IN  IF i <= n
              THEN h.exc = "" /\ startswith(f, h.ret \o <<NL>>) /\ Len(f) > Len(h.ret) + 1
              ELSE IF pc = "header" THEN f = <<>> ELSE f = h.ret \o <<NL>>

\* C2 witness: the run ended in the body of a post, after another post was
\* written in full.
C2_Witness == exc # "" /\ pc = "body" /\ n >= 1 /\ Cardinality(DOMAIN files) = 2

\* C3: a visited post that is not a message has no file; it has exactly one
\* warning, naming its id and type, unless it is a service post with the
\* action clear_history, which has no warning.
C3_SkippedPosts ==
    \A i \in 1..n :
        LET p == raw_posts[i]
        IN  ~IsMessage(i) =>
              /\ \A name \in DOMAIN files : name[3] # ToString(p.id)
              /\ IF p.type = "service" /\ p.action = "clear_history"
                 THEN WarningsOf(log, p.id) = <<>>
                 ELSE /\ Len(WarningsOf(log, p.id)) = 1
                      /\ WarningsOf(log, p.id)[1].type = p.type

\* C3 witness: the run is over and has visited a clear_history post, another
\* service post and a post of an unsupported type.
C3_Witness ==
    /\ pc = "done"
    /\ \E i, j, k \in 1..n :
          /\ raw_posts[i].type = "service" /\ raw_posts[i].action = "clear_history"
          /\ raw_posts[j].type = "service" /\ raw_posts[j].action # "clear_history"
          /\ raw_posts[k].type = "unsupported"

-----------------------------------------------------------------------------
(* Properties of the functions *)

Contains(s, sub) ==
    \E i \in 1..(Len(s) - Len(sub) + 1) : SubSeq(s, i, i + Len(sub) - 1) = sub

\* the five substitutions, one after the other
Unescaped(s) ==
    replace(replace(replace(replace(replace(s,
        <<BS, "n">>, <<NL>>), <<BS, "r">>, <<"\r">>), <<BS, "t">>, <<"\t">>),
        <<BS, "\"">>, <<"\"">>), <<BS, BS>>, <<BS>>)

\* C4: a plain span renders as its text with the escape sequences replaced.
C4_DeEscaping ==
    (~IsUnset(text) /\ IsSpan(obj) /\ obj.type = "plain" /\ "text" \in DOMAIN obj)
        => text.exc = "" /\ text.ret = JStr(Unescaped(obj.text))

Foreign(p, uid) == "from_id" \in DOMAIN p /\ p.from_id # USER \o <<ToString(uid)>>

FromLine(p) ==
    <<NL>> \o FROM \o <<QUOTE>> \o p.from \o <<QUOTE, " ", "(">> \o p.from_id \o <<")", NL>>
          \o (IF "forwarded_from" \in DOMAIN p THEN FORWARDED_FROM
              ELSE IF "saved_from" \in DOMAIN p THEN SAVED_FROM ELSE LAYOUT)

\* C5: when the tags can be collected, the header is returned; it holds a
\* from line with the name and id of the sender, before the provenance and
\* layout lines, exactly when the post has a from_id that is not the owner's.
C5_SenderLine ==
    (~IsUnset(post_header) /\ parse_tags(post.text_entities).exc = "")
        => /\ post_header.exc = ""
           /\ IF Foreign(post, user_id)
              THEN Contains(post_header.ret, FromLine(post))
              ELSE ~Contains(post_header.ret, <<NL>> \o FROM)

IsHashtag(o) == IsSpan(o) /\ o.type = "hashtag"

RECURSIVE Texts_(_)
Texts_(l) == IF l = <<>> THEN <<>> ELSE <<Head(l).text>> \o Texts_(Tail(l))

Hashtags(p) == Texts_(SelectSeq(p.text_entities.list, IsHashtag))

RECURSIVE Flat(_)
Flat(ss) == IF ss = <<>> THEN <<>> ELSE Head(ss) \o Flat(Tail(ss))

Spaced(ss) ==
    IF ss = <<>> THEN <<>>
    ELSE Head(ss) \o Flat([i \in 1..(Len(ss) - 1) |-> <<" ">> \o ss[i + 1]])

TagsLine(p) == <<NL>> \o TAGS \o Spaced(Hashtags(p)) \o <<NL>>

Without(p, Drop(_)) ==
    [p EXCEPT !.text_entities = JList(SelectSeq(p.text_entities.list, LAMBDA o : ~Drop(o)))]

\* what the claim needs of the body and of the single span, whatever the header
HashtagsLeftOut ==
    /\ (~IsUnset(text) /\ IsHashtag(obj) /\ "text" \in DOMAIN obj)
          => text.exc = "" /\ text.ret = JNone
    /\ (~IsUnset(post_parsed_text) /\ IsList(post.text_entities)
            /\ post_parsed_text.exc = "")
          => post_parsed_text.ret = parse_post_text(Without(post, IsHashtag)).ret

\* C6 as claimed: a hashtag span gives no text to the body, and the header
\* has a tags line exactly when the post has a hashtag span, the line holding
\* the hashtag texts in order, duplicates kept, with one space between them.
C6_HashtagRouting ==
    /\ HashtagsLeftOut
    /\ (~IsUnset(post_header) /\ IsList(post.text_entities) /\ post_header.exc = "")
          => IF Hashtags(post) # <<>>
             THEN Contains(post_header.ret, TagsLine(post))
             ELSE ~Contains(post_header.ret, <<NL>> \o TAGS)

\* C6 as amended: the same, but the header has the tags line exactly when the
\* joined hashtag texts are not empty: a post whose only hashtag span has an
\* empty text has no tags line.
C6_HashtagRoutingNonEmpty ==
    /\ HashtagsLeftOut
    /\ (~IsUnset(post_header) /\ IsList(post.text_entities) /\ post_header.exc = "")
          => IF Spaced(Hashtags(post)) # <<>>
             THEN Contains(post_header.ret, TagsLine(post))
             ELSE ~Contains(post_header.ret, <<NL>> \o TAGS)

\* C6 witness: a header with the tags line of two hashtags, one a duplicate.
C6_Witness ==
    /\ ~IsUnset(post_header) /\ post_header.exc = ""
    /\ IsList(post.text_entities)
    /\ Len(Hashtags(post)) = 2
    /\ Hashtags(post)[1] = Hashtags(post)[2]
    /\ Hashtags(post)[1] # <<>>
    /\ Contains(post_header.ret, TagsLine(post))

\* the body the sequencer is to give: a bare string as it is, a span as
\* parse_text_object renders it, nothing for a span rendered as None
RECURSIVE Body(_, _)
Body(id, l) ==
    IF l = <<>> THEN <<>>
    ELSE (IF IsStr(Head(l)) THEN Head(l).str
          ELSE LET r == parse_text_object(id, Head(l))
               IN  IF IsNone(r.ret) THEN <<>> ELSE r.ret.str)
         \o Body(id, Tail(l))

Renders(id, o) == IsStr(o) \/ parse_text_object(id, o).exc = ""

\* C7: an array whose span objects all render is rendered without failure,
\* its bare strings unchanged and in place.
C7_BareStrings ==
    (/\ ~IsUnset(post_parsed_text)
     /\ IsList(post.text_entities)
     /\ \A i \in 1..Len(post.text_entities.list) :
           Renders(post.id, post.text_entities.list[i]))
        => /\ post_parsed_text.exc = ""
           /\ post_parsed_text.ret = Body(post.id, post.text_entities.list)

\* C8: a pre span renders as the fence, a newline, the trimmed text, a
\* newline and the fence.
C8_CodeBlock ==
    (~IsUnset(text) /\ IsSpan(obj) /\ obj.type = "pre" /\ "text" \in DOMAIN obj)
        => /\ text.exc = ""
           /\ startswith(text.ret.str,
                         TICK3 \o <<NL>> \o strip(obj.text) \o <<NL>> \o TICK3)

IsTextLink(o) == IsSpan(o) /\ o.type = "text_link" /\ {"text", "href"} \subseteq DOMAIN o

Embed(href) == <<">", " ", "!", "[", "]", "(">> \o href \o <<")", NL, NL>>
Link(display, href) == <<"[">> \o display \o <<"]", "(">> \o href \o <<")">>

LastSlash(s) == CHOOSE i \in 1..Len(s) : s[i] = "/" /\ \A j \in (i + 1)..Len(s) : s[j] # "/"
Anchor(href) ==
    IF Len(href) >= Len(TME_C) /\ \A i \in 1..Len(TME_C) : href[i] = TME_C[i]
    THEN <<"#">> \o SubSeq(href, LastSlash(href) + 1, Len(href))
    ELSE href

Newlines(s) == Cardinality({i \in 1..Len(s) : s[i] = NL})
EndsInNewline(s) == s # <<>> /\ s[Len(s)] = NL

\* C9 as claimed: a text_link span gives [text](href) with the href as it
\* is, and one more newline when the text holds a newline and ends with one;
\* a zero-width text gives the quoted image embed.
C9_TextLink ==
    (~IsUnset(text) /\ IsTextLink(obj))
        => /\ text.exc = ""
           /\ text.ret.str =
                 IF obj.text \in {<<ZWSP>>, <<ZWSP, ZWSP>>, <<NBSP>>}
                 THEN Embed(obj.href)
                 ELSE Link(obj.text, obj.href)
                      \o (IF EndsInNewline(obj.text) THEN <<NL>> ELSE <<>>)

\* C9 as amended: the href is replaced by '#' and what follows its last '/'
\* when it starts with https://t.me/c/, and a text that ends with a newline
\* is followed by as many newlines as the text holds.
C9_TextLinkAnchored ==
    (~IsUnset(text) /\ IsTextLink(obj))
        => /\ text.exc = ""
           /\ text.ret.str =
                 IF obj.text \in {<<ZWSP>>, <<ZWSP, ZWSP>>, <<NBSP>>}
                 THEN Embed(obj.href)
                 ELSE Link(obj.text, Anchor(obj.href))
                      \o (IF EndsInNewline(obj.text)
                          THEN [i \in 1..Newlines(obj.text) |-> NL] ELSE <<>>)

\* C9 witness: a link into the channel whose text holds two newlines and
\* ends with one.
C9_Witness ==
    /\ ~IsUnset(text) /\ IsTextLink(obj)
    /\ startswith(obj.href, TME_C)
    /\ Newlines(obj.text) = 2 /\ EndsInNewline(obj.text)
    /\ text.exc = ""

Handled ==
    {"text_link", "link", "email", "phone", "italic", "bold", "code", "pre",
     "underline", "strikethrough", "plain", "bank_card", "mention", "blockquote",
     "custom_emoji", "spoiler", "hashtag"}

IsUnknown(o) == IsSpan(o) /\ o.type \notin Handled /\ "text" \in DOMAIN o

RECURSIVE CannotFormat(_, _)
CannotFormat(id, l) ==
    IF l = <<>> THEN <<>>
    ELSE <<[level |-> "WARNING",
            msg |-> "Cannot format the '%s' object type of the post #%i.",
            post_id |-> id, type |-> Head(l).type]>> \o CannotFormat(id, Tail(l))

\* C10: a span of a kind that is not handled raises nothing, gives None and
\* one warning naming the kind and the post; in an array whose other elements
\* render, the body is that of the array without these spans, and the log
\* has one such warning for each of them, in order.
C10_UnknownKind ==
    /\ (~IsUnset(text) /\ IsUnknown(obj))
          => /\ text.exc = ""
             /\ text.ret = JNone
             /\ Warnings(text.log) = CannotFormat(post.id, <<obj>>)
    /\ (/\ ~IsUnset(post_parsed_text)
        /\ IsList(post.text_entities)
        /\ \A i \in 1..Len(post.text_entities.list) :
              LET o == post.text_entities.list[i]
              IN  IsUnknown(o) \/ (IsSpan(o) /\ parse_text_object(post.id, o).exc = ""))
          => /\ post_parsed_text.exc = ""
             /\ post_parsed_text.ret = parse_post_text(Without(post, IsUnknown)).ret
             /\ Warnings(post_parsed_text.log)
                   = CannotFormat(post.id, SelectSeq(post.text_entities.list, IsUnknown))

\* C10 witness: an array with a span of an unknown kind before a span that
\* is rendered.
C10_Witness ==
    /\ ~IsUnset(post_parsed_text) /\ post_parsed_text.exc = ""
    /\ IsList(post.text_entities)
    /\ Len(post.text_entities.list) = 2
    /\ IsUnknown(post.text_entities.list[1])
    /\ post.text_entities.list[2] = Span("plain", <<"a">>)
    /\ post_parsed_text.ret = <<"a">>
    /\ Len(Warnings(post_parsed_text.log)) = 1

====
